---------------------------- MODULE Spec2Model ----------------------------
(* State-machine model of bathroom.js (Three.js bathroom scene).            *)
(*                                                                          *)
(* Lengths are fixed-point integers: one inch is 2100 units, which makes    *)
(* every literal of the source (hundredths of an inch, the thirds of the    *)
(* drawer height, the 28ths of the slat spacing) an exact integer.          *)
(* Angles are whole degrees.  A right-angle rotation of a box is exact; the *)
(* one oblique rotation of the source (the faucet spout, 30 degrees) uses   *)
(* cos and sin rounded to three decimals.                                   *)
(*                                                                          *)
(* Every object the create functions build is written once after it is      *)
(* constructed and never again.  The state keeps, for each top-level node   *)
(* of scene.children, the reference and the node's own transform (position, *)
(* rotation, scale); its geometry and children are looked up by reference.  *)
EXTENDS Integers, Sequences, FiniteSets, TLC

VARIABLES
    scene,              \* scene.children: sequence of references to top-level nodes
    sceneEnvironment,   \* scene.environment
    oakMaterial,        \* oakMaterial: texture key -> "none" or the loaded path
    camera,             \* camera.position in polar form: distance and the two angles
    mouseX, mouseY, isMouseDown,
    pressed,            \* the user's hand: buttons pressed on the canvas and still held
    targetRotationX, targetRotationY,
    currentRotationX, currentRotationY,
    pc,                 \* position of the top-level script
    inits,              \* number of completed init() runs
    frames,             \* number of animate() frames rendered
    texCalls,           \* number of loadPBRTextures() calls
    requests,           \* log of loader.load requests, in issue order
    loads,              \* outcome of each issued request: "pending", "ok", "fail"
    warnings,           \* number of console.warn calls of the loaders
    hdr                 \* outcome of each studio.hdr request: "pending", "ok", "fail"

vars == <<scene, sceneEnvironment, oakMaterial, camera, mouseX, mouseY, isMouseDown,
          pressed, targetRotationX, targetRotationY, currentRotationX, currentRotationY,
          pc, inits, frames, texCalls, requests, loads, warnings, hdr>>

-----------------------------------------------------------------------------
(* Units and vectors *)

\* n/d inches in model units (d divides n * 2100 for every literal used).
Q(n, d) == (n * 2100) \div d

\* whole inches
In(n) == Q(n, 1)

\* hundredths of an inch
H(n) == Q(n, 100)

Min2(a, b) == IF a <= b THEN a ELSE b
Max2(a, b) == IF a >= b THEN a ELSE b

Range(s) == {s[i] : i \in DOMAIN s}

VAdd(a, b) == <<a[1] + b[1], a[2] + b[2], a[3] + b[3]>>

\* THREE.Box3 as its two corners
Box(lo, hi) == [lo |-> lo, hi |-> hi]

\* Box3.union of two boxes
Union2(a, b) ==
    Box(<<Min2(a.lo[1], b.lo[1]), Min2(a.lo[2], b.lo[2]), Min2(a.lo[3], b.lo[3])>>,
        <<Max2(a.hi[1], b.hi[1]), Max2(a.hi[2], b.hi[2]), Max2(a.hi[3], b.hi[3])>>)

\* Box3.union over a non-empty sequence of boxes
RECURSIVE UnionRange(_, _, _)
UnionRange(bs, i, j) ==
    IF i = j THEN bs[i]
    ELSE LET m == (i + j) \div 2 IN Union2(UnionRange(bs, i, m), UnionRange(bs, m + 1, j))

Hull(bs) == UnionRange(bs, 1, Len(bs))

\* the eight corners of a box
Corners(b) ==
    <<<<b.lo[1], b.lo[2], b.lo[3]>>, <<b.lo[1], b.lo[2], b.hi[3]>>,
      <<b.lo[1], b.hi[2], b.lo[3]>>, <<b.lo[1], b.hi[2], b.hi[3]>>,
      <<b.hi[1], b.lo[2], b.lo[3]>>, <<b.hi[1], b.lo[2], b.hi[3]>>,
      <<b.hi[1], b.hi[2], b.lo[3]>>, <<b.hi[1], b.hi[2], b.hi[3]>>>>

\* cos and sin of the angles the source uses, times 1000
Cos1000(deg) ==
    CASE deg = 0 -> 1000 [] deg = 30 -> 866 [] deg = 90 -> 0 [] deg = -90 -> 0 [] deg = 180 -> -1000

Sin1000(deg) ==
    CASE deg = 0 -> 0 [] deg = 30 -> 500 [] deg = 90 -> 1000 [] deg = -90 -> -1000 [] deg = 180 -> 0

\* Euler rotation of a point (order XYZ: the matrix is Rx * Ry * Rz, so Rz acts first)
RotX(p, deg) ==
    <<p[1],
      (p[2] * Cos1000(deg) - p[3] * Sin1000(deg)) \div 1000,
      (p[2] * Sin1000(deg) + p[3] * Cos1000(deg)) \div 1000>>

RotY(p, deg) ==
    <<(p[1] * Cos1000(deg) + p[3] * Sin1000(deg)) \div 1000,
      p[2],
      (p[3] * Cos1000(deg) - p[1] * Sin1000(deg)) \div 1000>>

RotZ(p, deg) ==
    <<(p[1] * Cos1000(deg) - p[2] * Sin1000(deg)) \div 1000,
      (p[1] * Sin1000(deg) + p[2] * Cos1000(deg)) \div 1000,
      p[3]>>

Rotate(p, rot) == RotX(RotY(RotZ(p, rot[3]), rot[2]), rot[1])

ScalePoint(p, s) == <<p[1] * s[1], p[2] * s[2], p[3] * s[3]>>

\* Box3.applyMatrix4 with the matrix composed of position, rotation and scale:
\* the eight corners are transformed and boxed again.
ApplyMatrix(b, position, rotation, scale) ==
    LET cs == Corners(b)
        pts == [i \in 1..8 |-> VAdd(Rotate(ScalePoint(cs[i], scale), rotation), position)]
    IN Hull([i \in 1..8 |-> Box(pts[i], pts[i])])

-----------------------------------------------------------------------------
(* Geometries: the bounding box of each Three.js geometry the source builds *)

\* BoxGeometry(w, h, d)
BoxGeometry(w, h, d) ==
    Box(<<-(w \div 2), -(h \div 2), -(d \div 2)>>, <<w \div 2, h \div 2, d \div 2>>)

\* PlaneGeometry(w, h): flat in z
PlaneGeometry(w, h) == Box(<<-(w \div 2), -(h \div 2), 0>>, <<w \div 2, h \div 2, 0>>)

\* CylinderGeometry(radiusTop, radiusBottom, height, segments), segments a multiple of 4
CylinderGeometry(rt, rb, h) ==
    Box(<<-Max2(rt, rb), -(h \div 2), -Max2(rt, rb)>>, <<Max2(rt, rb), h \div 2, Max2(rt, rb)>>)

\* SphereGeometry(radius, ...)
SphereGeometry(r) == Box(<<-r, -r, -r>>, <<r, r, r>>)

\* TorusGeometry(radius, tube, ...): a ring in the xy plane
TorusGeometry(r, tube) == Box(<<-(r + tube), -(r + tube), -tube>>, <<r + tube, r + tube, tube>>)

\* LatheGeometry(points, segments): points are <<radius, y>>, revolved about y
LatheGeometry(pts) ==
    LET rs == {pts[i][1] : i \in DOMAIN pts}
        ys == {pts[i][2] : i \in DOMAIN pts}
        rmax == CHOOSE r \in rs : \A q \in rs : r >= q
        ymin == CHOOSE y \in ys : \A q \in ys : y <= q
        ymax == CHOOSE y \in ys : \A q \in ys : y >= q
    IN Box(<<-rmax, ymin, -rmax>>, <<rmax, ymax, rmax>>)

\* ExtrudeGeometry of a shape with half-extents (hx, hy) about the origin,
\* extruded along z by depth, with a bevel of the given size / thickness (0: none)
ExtrudeGeometry(hx, hy, depth, bevel) ==
    Box(<<-(hx + bevel), -(hy + bevel), -bevel>>, <<hx + bevel, hy + bevel, depth + bevel>>)

-----------------------------------------------------------------------------
(* Scene graph nodes *)

OneScale == <<1, 1, 1>>
NoRotation == <<0, 0, 0>>

\* THREE.Mesh / THREE.Group / light: id is the source's variable name
Node(id, type, geom, position, rotation, children) ==
    [id |-> id, type |-> type, geom |-> geom, position |-> position,
     rotation |-> rotation, scale |-> OneScale, children |-> children]

Mesh(id, geom, position, rotation) == Node(id, "Mesh", <<geom>>, position, rotation, <<>>)

MeshWith(id, geom, position, rotation, children) ==
    Node(id, "Mesh", <<geom>>, position, rotation, children)

Group(id, position, rotation, children) == Node(id, "Group", <<>>, position, rotation, children)

Light(id, position) == Node(id, "Light", <<>>, position, NoRotation, <<>>)

\* concatenation of a sequence of sequences
RECURSIVE FlattenRange(_, _, _)
FlattenRange(ss, i, j) ==
    IF i > j THEN <<>>
    ELSE IF i = j THEN ss[i]
    ELSE LET m == (i + j) \div 2 IN FlattenRange(ss, i, m) \o FlattenRange(ss, m + 1, j)

Flatten(ss) == FlattenRange(ss, 1, Len(ss))

\* Object3D.traverse restricted to meshes: every mesh's geometry box carried into
\* the frame of n's parent (matrixWorld applied to geometry.boundingBox)
RECURSIVE MeshBoxes(_)
MeshBoxes(n) ==
    LET inner == n.geom \o Flatten([i \in DOMAIN n.children |-> MeshBoxes(n.children[i])])
    IN [i \in DOMAIN inner |-> ApplyMatrix(inner[i], n.position, n.rotation, n.scale)]

\* new THREE.Box3().setFromObject(n)
setFromObject(n) == Hull(MeshBoxes(n))

\* every node of a subtree, the root included
RECURSIVE Descendants(_)
Descendants(n) == {n} \cup UNION {Descendants(n.children[i]) : i \in DOMAIN n.children}

\* a reference to node n as scene.children holds it, with the node's own transform
Ref(n) == [id |-> n.id, type |-> n.type, position |-> n.position,
           rotation |-> n.rotation, scale |-> n.scale]

\* scene.add(n)
add(sc, n) == Append(sc, Ref(n))

\* scene.add of each node of a sequence, in order
addAll(sc, ns) == sc \o [i \in DOMAIN ns |-> Ref(ns[i])]

-----------------------------------------------------------------------------
(* Room dimensions, in inches *)

LENGTH == 102
WIDTH == 32
HEIGHT == 108

\* the room's floor plane (floor.position.y = 0)
FloorY == 0

-----------------------------------------------------------------------------
(* setupLighting: six nodes added to the scene, and the default environment *)

lightNodes ==
       <<Light("hemi", <<0, 0, 0>>),
            Light("ambientLight", <<0, 0, 0>>),
            Light("overheadLight", <<0, In(HEIGHT - 5), 0>>),
            Light("vanityLight", <<0, In(HEIGHT - 15), -In(LENGTH) \div 2 + In(5)>>),
            Node("vanityLight.target", "Object3D", <<>>, <<0, In(34), -In(LENGTH) \div 2 + In(1)>>,
                 NoRotation, <<>>),
            Light("fill", <<0, In(HEIGHT) \div 2, In(LENGTH) \div 2>>)>>

setupLighting(sc) == addAll(sc, lightNodes)

-----------------------------------------------------------------------------
(* createRoom: floor, ceiling, four walls, four baseboards *)

roomNodes ==
    LET baseboardHeight == In(4)
    IN <<Mesh("floor", PlaneGeometry(In(WIDTH), In(LENGTH)), <<0, FloorY, 0>>, <<-90, 0, 0>>),
         Mesh("ceiling", PlaneGeometry(In(WIDTH), In(LENGTH)), <<0, In(HEIGHT), 0>>, <<90, 0, 0>>),
         Mesh("backWall", PlaneGeometry(In(WIDTH), In(HEIGHT)),
              <<0, In(HEIGHT) \div 2, -In(LENGTH) \div 2>>, NoRotation),
         Mesh("frontWall", PlaneGeometry(In(WIDTH), In(HEIGHT)),
              <<0, In(HEIGHT) \div 2, In(LENGTH) \div 2>>, <<0, 180, 0>>),
         Mesh("leftWall", PlaneGeometry(In(LENGTH), In(HEIGHT)),
              <<-In(WIDTH) \div 2, In(HEIGHT) \div 2, 0>>, <<0, 90, 0>>),
         Mesh("rightWall", PlaneGeometry(In(LENGTH), In(HEIGHT)),
              <<In(WIDTH) \div 2, In(HEIGHT) \div 2, 0>>, <<0, -90, 0>>),
         Mesh("backBaseboard", BoxGeometry(In(WIDTH), baseboardHeight, In(1)),
              <<0, baseboardHeight \div 2, -In(LENGTH) \div 2 + H(50)>>, NoRotation),
         Mesh("frontBaseboard", BoxGeometry(In(WIDTH), baseboardHeight, In(1)),
              <<0, baseboardHeight \div 2, In(LENGTH) \div 2 - H(50)>>, NoRotation),
         Mesh("leftBaseboard", BoxGeometry(In(LENGTH), baseboardHeight, In(1)),
              <<-In(WIDTH) \div 2 + H(50), baseboardHeight \div 2, 0>>, <<0, 90, 0>>),
         Mesh("rightBaseboard", BoxGeometry(In(LENGTH), baseboardHeight, In(1)),
              <<In(WIDTH) \div 2 - H(50), baseboardHeight \div 2, 0>>, <<0, -90, 0>>)>>

createRoom(sc) == addAll(sc, roomNodes)

-----------------------------------------------------------------------------
(* createVanity *)

\* variant: side panels set one inch too close to the centre line
vanityPanelsNarrow ==
    LET sideThickness == In(1)
        sideHeight == In(34)
        sideDepth == H(2250)
        halfWidth == In(11)
    IN <<Mesh("leftPanel", BoxGeometry(sideThickness, sideHeight, sideDepth),
              <<-halfWidth + sideThickness \div 2, sideHeight \div 2, 0>>, NoRotation),
         Mesh("rightPanel", BoxGeometry(sideThickness, sideHeight, sideDepth),
              <<halfWidth - sideThickness \div 2, sideHeight \div 2, 0>>, NoRotation)>>

\* the two side panels of the open frame
vanityPanels ==
    LET sideThickness == In(1)
        sideHeight == In(34)
        sideDepth == H(2250)
        halfWidth == In(12)
    IN <<Mesh("leftPanel", BoxGeometry(sideThickness, sideHeight, sideDepth),
              <<-halfWidth + sideThickness \div 2, sideHeight \div 2, 0>>, NoRotation),
         Mesh("rightPanel", BoxGeometry(sideThickness, sideHeight, sideDepth),
              <<halfWidth - sideThickness \div 2, sideHeight \div 2, 0>>, NoRotation)>>

\* back panel and the four tapered legs
vanityBackAndLegs ==
    LET sideThickness == In(1)
        sideHeight == In(34)
        sideDepth == H(2250)
        halfWidth == In(12)
        backThickness == H(50)
        legGeometry == CylinderGeometry(H(120), H(80), In(6))
        legYOffset == In(3)
        legInset == In(2)
    IN <<Mesh("backPanel", BoxGeometry(In(24) - sideThickness * 2, sideHeight - In(2), backThickness),
              <<0, sideHeight \div 2 - In(1), -sideDepth \div 2 + backThickness \div 2>>, NoRotation),
         Mesh("leg", legGeometry, <<-halfWidth + legInset, legYOffset, -sideDepth \div 2 + legInset>>, NoRotation),
         Mesh("leg", legGeometry, <<halfWidth - legInset, legYOffset, -sideDepth \div 2 + legInset>>, NoRotation),
         Mesh("leg", legGeometry, <<-halfWidth + legInset, legYOffset, sideDepth \div 2 - legInset>>, NoRotation),
         Mesh("leg", legGeometry, <<halfWidth - legInset, legYOffset, sideDepth \div 2 - legInset>>, NoRotation)>>

\* the three drawer fronts, each with 28 slats and a knob as children
vanityDrawers ==
    LET sideThickness == In(1)
        sideHeight == In(34)
        sideDepth == H(2250)
        drawerCount == 3
        drawerHeight == sideHeight \div drawerCount
        drawerFrontThickness == H(70)
        drawerFrontWidth == In(24) - sideThickness * 2 - In(2)
        slatCount == 28
        slatSpacing == drawerFrontWidth \div slatCount
        slatDepth == H(40)
        slat(s) ==
            Mesh("slat", BoxGeometry((slatSpacing * 9) \div 10, drawerHeight - H(250), slatDepth),
                 <<-drawerFrontWidth \div 2 + (slatSpacing * (2 * s + 1)) \div 2, 0,
                   drawerFrontThickness \div 2 - slatDepth \div 2>>, NoRotation)
        knob == Mesh("knob", SphereGeometry(H(50)),
                     <<0, 0, drawerFrontThickness \div 2 + H(30)>>, NoRotation)
        front(i) ==
            MeshWith("front", BoxGeometry(drawerFrontWidth, drawerHeight - In(2), drawerFrontThickness),
                     <<0, i * drawerHeight + drawerHeight \div 2,
                       sideDepth \div 2 - drawerFrontThickness \div 2>>, NoRotation,
                     [k \in 1..slatCount |-> slat(k - 1)] \o <<knob>>)
    IN [k \in 1..drawerCount |-> front(k - 1)]

\* countertop, sink, drain and the faucet group
vanityTop ==
    LET spout == Mesh("spout", CylinderGeometry(H(20), H(20), In(6)), <<0, In(3), 0>>, <<30, 0, 0>>)
        base == Mesh("base", CylinderGeometry(H(40), H(40), In(1)), <<0, 0, 0>>, NoRotation)
        leftHandle == Mesh("leftHandle", CylinderGeometry(H(30), H(30), In(3)),
                           <<-H(250), H(150), 0>>, <<0, 0, 90>>)
        rightHandle == Mesh("rightHandle", CylinderGeometry(H(30), H(30), In(3)),
                            <<H(250), H(150), 0>>, <<0, 0, -90>>)
    IN <<Mesh("counter", BoxGeometry(In(25), H(150), H(2350)), <<0, H(3575), 0>>, NoRotation),
         Mesh("sink", CylinderGeometry(In(7), H(650), H(250)), <<0, H(3625), 0>>, NoRotation),
         Mesh("drain", CylinderGeometry(H(50), H(50), H(50)), <<0, H(3550), 0>>, NoRotation),
         Group("faucetGroup", <<0, In(39), 0>>, NoRotation,
               <<spout, base, leftHandle, rightHandle>>)>>

vanityGroup ==
    Group("vanityGroup", <<0, 0, -In(LENGTH) \div 2 + H(1125)>>, NoRotation,
          vanityPanels \o vanityBackAndLegs \o vanityDrawers \o vanityTop)

createVanity(sc) == add(sc, vanityGroup)

-----------------------------------------------------------------------------
(* createToilet *)

\* the three lathe-turned ceramic parts
toiletLathes ==
    LET basePts == <<<<H(650), 0>>, <<H(750), H(30)>>, <<H(720), H(100)>>,
                     <<H(600), H(300)>>, <<H(580), H(450)>>, <<H(620), H(750)>>>>
        bowlOuterPts == <<<<H(580), H(750)>>, <<H(620), H(1000)>>, <<H(680), H(1200)>>,
                          <<H(640), H(1300)>>, <<H(560), H(1400)>>, <<H(500), H(1550)>>>>
        bowlInnerPts == <<<<H(420), H(760)>>, <<H(380), H(1040)>>, <<H(360), H(1250)>>,
                          <<H(360), H(1460)>>>>
    IN <<Mesh("baseMesh", LatheGeometry(basePts), <<0, 0, 0>>, NoRotation),
         Mesh("bowlOuter", LatheGeometry(bowlOuterPts), <<0, 0, 0>>, NoRotation),
         Mesh("bowlInner", LatheGeometry(bowlInnerPts), <<0, 0, 0>>, NoRotation)>>

\* rim, seat and lid: extruded ellipses laid flat (rotation.x = -PI/2), and the hinges
toiletSeat ==
    <<Mesh("rim", ExtrudeGeometry(H(600), H(450), H(60), 0), <<0, H(1550), 0>>, <<-90, 0, 0>>),
      Mesh("seat", ExtrudeGeometry(H(610), H(460), H(40), 0), <<0, H(1610), 0>>, <<-90, 0, 0>>),
      Mesh("lid", ExtrudeGeometry(H(620), H(470), H(50), H(10)), <<0, H(1670), -H(20)>>, <<-90, 0, 0>>),
      Mesh("hingeLeft", CylinderGeometry(H(25), H(25), H(120)), <<-In(2), H(1640), -H(180)>>, <<0, 0, 90>>),
      Mesh("hingeRight", CylinderGeometry(H(25), H(25), H(120)), <<In(2), H(1640), -H(180)>>, <<0, 0, 90>>)>>

\* tank, tank lid, flush handle and bolt caps
toiletTank ==
    <<Mesh("tank", BoxGeometry(In(13), In(10), H(650)), <<0, H(2250), -H(980)>>, NoRotation),
      Mesh("tankLid", BoxGeometry(H(1320), H(120), H(670)), <<0, H(2810), -H(980)>>, NoRotation),
      Mesh("handle", CylinderGeometry(H(25), H(25), H(220)), <<In(6), In(25), -H(670)>>, <<0, 0, 90>>),
      Mesh("boltL", SphereGeometry(H(35)), <<-H(250), H(1560), In(4)>>, NoRotation),
      Mesh("boltR", SphereGeometry(H(35)), <<H(250), H(1560), In(4)>>, NoRotation)>>

\* variant: the toilet group placed with its origin above the floor
toiletGroupLifted ==
    Group("toiletGroup", <<0, H(750), In(LENGTH) \div 2 - H(1450)>>, <<0, 180, 0>>,
          toiletLathes \o toiletSeat \o toiletTank)

toiletGroup ==
    Group("toiletGroup", <<0, 0, In(LENGTH) \div 2 - H(1450)>>, <<0, 180, 0>>,
          toiletLathes \o toiletSeat \o toiletTank)

createToilet(sc) == add(sc, toiletGroup)

-----------------------------------------------------------------------------
(* createMirror *)

mirrorGroup ==
    LET frameWidth == In(26)
        frameHeight == In(30)
        frameThickness == In(2)
        waveAmplitude == H(160)
        inset == In(3)
        \* the outline's sine wave reaches +-waveAmplitude on every edge
        \* (segments = 24: sin(2 PI i / 24) is 1 at i = 6 and -1 at i = 18)
        frameGeo == ExtrudeGeometry(frameWidth \div 2 + waveAmplitude,
                                    frameHeight \div 2 + waveAmplitude, frameThickness, 0)
        glassGeo == PlaneGeometry(frameWidth - inset * 2, frameHeight - inset * 2)
    IN Group("mirrorGroup", <<0, In(55), -In(LENGTH) \div 2 + In(1)>>, NoRotation,
             <<Mesh("frameMesh", frameGeo, <<0, 0, 0>>, NoRotation),
               Mesh("glass", glassGeo, <<0, 0, (frameThickness * 55) \div 100>>, NoRotation)>>)

createMirror(sc) == add(sc, mirrorGroup)

-----------------------------------------------------------------------------
(* createVanityLight *)

\* variant: a shade flattened to zero height
shadeScaleFlat == <<1, 0, 1>>

\* shade.scale.set(1, 1, 1)
shadeScale == <<1, 1, 1>>

lightGroup ==
    LET pts == <<<<H(20), -H(50)>>, <<H(35), -H(120)>>, <<In(1), -H(220)>>,
                 <<H(180), -In(3)>>, <<H(230), -H(360)>>, <<H(250), -H(480)>>>>
        \* x of the i-th shade: (i - 0.5) * 14
        x(i) == ((2 * i - 1) * In(14)) \div 2
        holder(i) == Mesh("holder", CylinderGeometry(H(50), H(50), In(2)), <<x(i), -In(1), 0>>, NoRotation)
        shade(i) == [Mesh("shade", LatheGeometry(pts), <<x(i), -H(280), 0>>, NoRotation)
                        EXCEPT !.scale = shadeScale]
        bulb(i) == Mesh("bulb", SphereGeometry(H(80)), <<x(i), -H(420), 0>>, NoRotation)
    IN Group("lightGroup", <<0, In(80), -In(LENGTH) \div 2 + In(1)>>, NoRotation,
             <<Mesh("bar", BoxGeometry(In(32), H(150), In(2)), <<0, 0, 0>>, NoRotation),
               holder(0), shade(0), bulb(0), holder(1), shade(1), bulb(1)>>)

createVanityLight(sc) == add(sc, lightGroup)

-----------------------------------------------------------------------------
(* createCabinet *)

cabinetGroup ==
    LET doorWidth == In(12)
        knob == Mesh("knob", SphereGeometry(H(50)), <<0, 0, H(60)>>, NoRotation)
        door(i) == MeshWith("door", BoxGeometry(doorWidth - In(1), H(980), In(1)),
                            <<((2 * i - 1) * doorWidth) \div 2, 0, H(550)>>, NoRotation, <<knob>>)
    IN Group("cabinetGroup", <<0, In(60), In(LENGTH) \div 2 - In(5)>>, <<0, 180, 0>>,
             <<Mesh("cabinet", BoxGeometry(In(25), H(1180), In(10)), <<0, 0, 0>>, NoRotation),
               door(0), door(1)>>)

createCabinet(sc) == add(sc, cabinetGroup)

-----------------------------------------------------------------------------
(* createTowelRing *)

\* variant: the ring left unrotated, in the plane of its torus
ringWithoutYaw ==
    Mesh("ring", TorusGeometry(In(3), H(30)),
         <<-In(WIDTH) \div 2 + In(2), In(40), -In(LENGTH) \div 4>>, NoRotation)

ring ==
    Mesh("ring", TorusGeometry(In(3), H(30)),
         <<-In(WIDTH) \div 2 + In(2), In(40), -In(LENGTH) \div 4>>, <<0, 90, 0>>)

createTowelRing(sc) == add(sc, ring)

-----------------------------------------------------------------------------
(* The objects behind the references *)

Objects ==
    lightNodes \o roomNodes \o
    <<vanityGroup, toiletGroup, mirrorGroup, lightGroup, cabinetGroup, ring>>

\* the node a reference points to, carrying the transform the reference records
Resolve(r) ==
    LET n == Objects[CHOOSE i \in DOMAIN Objects : Objects[i].id = r.id]
    IN [n EXCEPT !.position = r.position, !.rotation = r.rotation, !.scale = r.scale]

-----------------------------------------------------------------------------
(* Bounds of the model *)

\* init() may be run again after the script's own call, up to this many runs in all
MaxInits == 2

\* animate() frames run through requestAnimationFrame, after the script's own call
MaxFrames == 1

\* loadPBRTextures() / loadEnvironmentHDR() calls
MaxTexCalls == 1
MaxHdrCalls == 1

\* largest |targetRotation| explored, in pixels of accumulated drag
MaxDrag == 50

\* event.clientX / event.clientY of mouse events, in pixels
MousePositions == {0, 50}

\* event.button of mouse events: 0 is the main button, 2 the right button
MouseButtons == {0, 2}

\* event.deltaY of wheel events
WheelDeltas == {-3000, 3000}

-----------------------------------------------------------------------------
(* Camera and orbit controls.  Distances are tenths of an inch; angles are   *)
(* hundredths of a radian, the angle one pixel of drag adds to the target.  *)

\* camera.position.set(0, 0, 260): distance 260 on the +z axis
CameraDistance == 260

\* Math.max(10, Math.min(400, ...))
MinDistance == 10
MaxDistance == 400

\* a camera position as distance from the origin and the two orbit angles:
\* (d sin(ry) cos(rx), d sin(rx), d cos(ry) cos(rx))
\* The length of that vector is d in real arithmetic; the rounding of the source's
\* double-precision products (about one part in 10^16) is below the tenth of an
\* inch this model resolves and is not represented.
Polar(d, rx, ry) == [distance |-> d, rotationX |-> rx, rotationY |-> ry]

\* integer quotient rounded toward zero, as the fixed-point image of a product
TruncDiv(a, b) == IF a >= 0 THEN a \div b ELSE -((-a) \div b)

\* c + (t - c) * 0.05
Damp(c, t) == c + TruncDiv((t - c) * 5, 100)

\* delta * 0.01 rad
DragAngle(delta) == delta

-----------------------------------------------------------------------------
(* Asset loaders *)

\* Object.entries(maps), in insertion order
maps ==
    <<[key |-> "map", path |-> "assets/oak_basecolor.jpg"],
      [key |-> "normalMap", path |-> "assets/oak_normal.jpg"],
      [key |-> "roughnessMap", path |-> "assets/oak_roughness.jpg"],
      [key |-> "aoMap", path |-> "assets/oak_ao.jpg"]>>

TexKeys == {maps[i].key : i \in DOMAIN maps}

WarnKinds == {maps[i].path : i \in DOMAIN maps} \cup {"RGBELoader not found", "HDRI not found"}

-----------------------------------------------------------------------------
(* State after the top-level statements that precede the call init() *)

Init ==
    /\ scene = <<>>
    /\ sceneEnvironment = "none"
    /\ oakMaterial = [k \in TexKeys |-> "none"]
    /\ camera = Polar(CameraDistance * 10, 0, 0)
    /\ mouseX = 0
    /\ mouseY = 0
    /\ isMouseDown = FALSE
    /\ pressed = {}
    /\ targetRotationX = 0
    /\ targetRotationY = 0
    /\ currentRotationX = 0
    /\ currentRotationY = 0
    /\ pc = "init"
    /\ inits = 0
    /\ frames = 0
    /\ texCalls = 0
    /\ requests = <<>>
    /\ loads = <<>>
    /\ warnings = [w \in WarnKinds |-> 0]
    /\ hdr = <<>>

loaderVars == <<oakMaterial, texCalls, requests, loads, warnings, hdr>>
mouseVars == <<mouseX, mouseY, isMouseDown, pressed>>

-----------------------------------------------------------------------------
(* init() *)

\* variant: the clearing loop left out
ClearSceneSkipped(sc) == sc

\* while (scene.children.length > 0) scene.remove(scene.children[0])
RECURSIVE ClearScene(_)
ClearScene(sc) == IF Len(sc) > 0 THEN ClearScene(Tail(sc)) ELSE sc

\* the scene after the clearing loop and the eight construction calls
BuildScene(sc) ==
    createTowelRing(createCabinet(createVanityLight(createMirror(
        createToilet(createVanity(createRoom(setupLighting(ClearScene(sc)))))))))

\* variant: only the target rotations are reset, the current ones are kept
initKeepsCurrentRotation ==
    /\ scene' = BuildScene(scene)
    /\ sceneEnvironment' = "envTex"
    /\ camera' = Polar(CameraDistance * 10, 0, 0)
    /\ targetRotationX' = 0
    /\ targetRotationY' = 0
    /\ inits' = inits + 1
    /\ UNCHANGED <<currentRotationX, currentRotationY, mouseVars, frames, loaderVars>>

init ==
    /\ scene' = BuildScene(scene)
    /\ sceneEnvironment' = "envTex"
    /\ camera' = Polar(CameraDistance * 10, 0, 0)
    /\ targetRotationX' = 0
    /\ targetRotationY' = 0
    /\ currentRotationX' = 0
    /\ currentRotationY' = 0
    /\ inits' = inits + 1
    /\ UNCHANGED <<mouseVars, frames, loaderVars>>

\* variant: the build is put off, and the script goes on to animate() without it
ScriptInitDeferred ==
    /\ pc = "init"
    /\ pc' = "animate"
    /\ UNCHANGED <<scene, sceneEnvironment, camera, mouseVars, targetRotationX, targetRotationY,
                   currentRotationX, currentRotationY, inits, frames, loaderVars>>

\* line 758: the script's own call
ScriptInit == pc = "init" /\ init /\ pc' = "animate"

\* init() is a global function: a later call from the page or the console
CallInit == pc = "loop" /\ inits < MaxInits /\ init /\ pc' = pc

-----------------------------------------------------------------------------
(* animate() *)

animate ==
    /\ currentRotationX' = Damp(currentRotationX, targetRotationX)
    /\ currentRotationY' = Damp(currentRotationY, targetRotationY)
    /\ camera' = Polar(camera.distance, currentRotationX', currentRotationY')
    /\ frames' = frames + 1
    /\ UNCHANGED <<scene, sceneEnvironment, targetRotationX, targetRotationY,
                   mouseVars, inits, loaderVars>>

\* line 759: the script's own call, which renders the first frame
ScriptAnimate == pc = "animate" /\ animate /\ pc' = "loop"

\* requestAnimationFrame(animate): every later frame
Frame == pc = "loop" /\ frames < 1 + MaxFrames /\ animate /\ pc' = pc

-----------------------------------------------------------------------------
(* Mouse and wheel listeners of renderer.domElement *)

onMouseDown(clientX, clientY, button) ==
    /\ pc = "loop"
    /\ isMouseDown' = TRUE
    /\ mouseX' = clientX
    /\ mouseY' = clientY
    /\ UNCHANGED <<scene, sceneEnvironment, camera, targetRotationX, targetRotationY,
                   currentRotationX, currentRotationY, pc, inits, frames, loaderVars>>

onMouseMove(clientX, clientY) ==
    /\ pc = "loop"
    /\ IF isMouseDown
       THEN LET deltaX == clientX - mouseX
                deltaY == clientY - mouseY
            IN /\ targetRotationY + DragAngle(deltaX) \in -DragAngle(MaxDrag)..DragAngle(MaxDrag)
               /\ targetRotationX + DragAngle(deltaY) \in -DragAngle(MaxDrag)..DragAngle(MaxDrag)
               /\ targetRotationY' = targetRotationY + DragAngle(deltaX)
               /\ targetRotationX' = targetRotationX + DragAngle(deltaY)
               /\ mouseX' = clientX
               /\ mouseY' = clientY
       ELSE UNCHANGED <<targetRotationX, targetRotationY, mouseX, mouseY>>
    /\ UNCHANGED <<scene, sceneEnvironment, camera, isMouseDown,
                   currentRotationX, currentRotationY, pc, inits, frames, loaderVars>>

onMouseUp ==
    /\ pc = "loop"
    /\ isMouseDown' = FALSE
    /\ UNCHANGED <<scene, sceneEnvironment, camera, mouseX, mouseY, targetRotationX,
                   targetRotationY, currentRotationX, currentRotationY, pc, inits, frames,
                   loaderVars>>

\* variant: the new distance is not clamped
onMouseWheelUnclamped(deltaY) ==
    /\ pc = "loop"
    /\ camera' = Polar(camera.distance + deltaY, camera.rotationX, camera.rotationY)
    /\ UNCHANGED <<scene, sceneEnvironment, mouseVars, targetRotationX, targetRotationY,
                   currentRotationX, currentRotationY, pc, inits, frames, loaderVars>>

\* newDistance = max(10, min(400, distance + deltaY * 0.1)), direction kept
onMouseWheel(deltaY) ==
    /\ pc = "loop"
    /\ LET distance == camera.distance
           newDistance == Max2(MinDistance * 10, Min2(MaxDistance * 10, distance + deltaY))
       IN camera' = Polar(newDistance, camera.rotationX, camera.rotationY)
    /\ UNCHANGED <<scene, sceneEnvironment, mouseVars, targetRotationX, targetRotationY,
                   currentRotationX, currentRotationY, pc, inits, frames, loaderVars>>

\* a button not yet held is pressed with the pointer over the canvas
MouseDown ==
    \E x \in MousePositions, y \in MousePositions, b \in MouseButtons \ pressed :
        onMouseDown(x, y, b) /\ pressed' = pressed \cup {b}

\* the pointer moves over the canvas
MouseMove ==
    \E x \in MousePositions, y \in MousePositions : onMouseMove(x, y) /\ UNCHANGED pressed

\* a button is released with the pointer over the canvas
MouseUp == \E b \in MouseButtons : onMouseUp /\ pressed' = pressed \ {b}

\* a held button is released with the pointer outside the canvas: the mouseup event
\* goes to another element, and no listener of renderer.domElement runs
ReleaseOutside ==
    /\ pc = "loop"
    /\ \E b \in pressed : pressed' = pressed \ {b}
    /\ UNCHANGED <<scene, sceneEnvironment, camera, mouseX, mouseY, isMouseDown,
                   targetRotationX, targetRotationY, currentRotationX, currentRotationY,
                   pc, inits, frames, loaderVars>>

MouseWheel == \E d \in WheelDeltas : onMouseWheel(d)

-----------------------------------------------------------------------------
(* The program: the script runs init() and animate(), then the event loop    *)
(* delivers frames and input events.  The program never calls the loaders.   *)

Next ==
    \/ ScriptInit
    \/ ScriptAnimate
    \/ CallInit
    \/ Frame
    \/ MouseDown
    \/ MouseMove
    \/ MouseUp
    \/ ReleaseOutside
    \/ MouseWheel

Spec == Init /\ [][Next]_vars

-----------------------------------------------------------------------------
(* Fixtures in the scene *)

\* the six fixtures, by the variable that init()'s create functions add to the scene
Fixtures == {"vanityGroup", "toiletGroup", "mirrorGroup", "lightGroup", "cabinetGroup", "ring"}

\* fixtures that stand on the floor / hang on a wall
FloorStanding == {"vanityGroup", "toiletGroup"}
WallMounted == Fixtures \ FloorStanding

\* indices of the top-level nodes registered for a fixture
Slots(f) == {i \in DOMAIN scene : scene[i].id = f}

\* the six fixture nodes as the create functions build them, with their references,
\* their bounding volumes, their bounding volumes without the yaw, and their nodes
builtFixtures == <<vanityGroup, toiletGroup, mirrorGroup, lightGroup, cabinetGroup, ring>>

builtRefs ==
    <<Ref(vanityGroup), Ref(toiletGroup), Ref(mirrorGroup), Ref(lightGroup),
      Ref(cabinetGroup), Ref(ring)>>

builtBoxes ==
    <<setFromObject(vanityGroup), setFromObject(toiletGroup), setFromObject(mirrorGroup),
      setFromObject(lightGroup), setFromObject(cabinetGroup), setFromObject(ring)>>

Unrotated(n) == [n EXCEPT !.rotation = NoRotation]

builtUnrotatedBoxes ==
    <<setFromObject(Unrotated(vanityGroup)), setFromObject(Unrotated(toiletGroup)),
      setFromObject(Unrotated(mirrorGroup)), setFromObject(Unrotated(lightGroup)),
      setFromObject(Unrotated(cabinetGroup)), setFromObject(Unrotated(ring))>>

builtNodes ==
    <<Descendants(vanityGroup), Descendants(toiletGroup), Descendants(mirrorGroup),
      Descendants(lightGroup), Descendants(cabinetGroup), Descendants(ring)>>

\* index of reference r among builtRefs, 0 when it is none of them
BuiltIndex(r) ==
    IF \E k \in DOMAIN builtRefs : builtRefs[k] = r
    THEN CHOOSE k \in DOMAIN builtRefs : builtRefs[k] = r
    ELSE 0

\* setFromObject of the node behind reference r
BoundingBox(r) ==
    IF BuiltIndex(r) > 0 THEN builtBoxes[BuiltIndex(r)] ELSE setFromObject(Resolve(r))

\* the bounding volume of the node behind r before its yaw is applied
PreRotationBox(r) ==
    IF BuiltIndex(r) > 0 THEN builtUnrotatedBoxes[BuiltIndex(r)]
    ELSE setFromObject(Unrotated(Resolve(r)))

\* every node of the subtree behind reference r
NodesOf(r) ==
    IF BuiltIndex(r) > 0 THEN builtNodes[BuiltIndex(r)] ELSE Descendants(Resolve(r))

\* bounding volume of every top-level node registered for a fixture
FixtureBoxes(f) == {BoundingBox(scene[i]) : i \in Slots(f)}

Built == inits >= 1

Size(b, k) == b.hi[k] - b.lo[k]

-----------------------------------------------------------------------------
(* C1: floor contact *)

\* C1 as stated: after init() every fixture's bounding volume has its minimum y
\* exactly on the floor, y = 0.
C1_EveryFixtureOnFloor ==
    Built => \A f \in Fixtures : \A b \in FixtureBoxes(f) : b.lo[2] = FloorY

\* lowest point of each wall-mounted fixture (position.y minus what hangs below it)
MountedMinY(f) ==
    CASE f = "mirrorGroup" -> H(3840)
      [] f = "lightGroup" -> H(7240)
      [] f = "cabinetGroup" -> H(5410)
      [] f = "ring" -> H(3670)

\* C1 amended: after init() the floor-standing fixtures (vanity, toilet) have their
\* minimum y exactly at the floor y = 0; the wall-mounted fixtures hang above the
\* floor, with minimum y 38.4 (mirror), 72.4 (vanity light), 54.1 (cabinet) and
\* 36.7 (towel ring).
C1_FloorContact ==
    Built =>
        /\ \A f \in FloorStanding : \A b \in FixtureBoxes(f) : b.lo[2] = FloorY
        /\ \A f \in WallMounted : \A b \in FixtureBoxes(f) : b.lo[2] = MountedMinY(f) /\ b.lo[2] > FloorY

C1_Witness ==
    /\ Built
    /\ \E b \in FixtureBoxes("toiletGroup") : b.lo[2] = FloorY
    /\ \E b \in FixtureBoxes("mirrorGroup") : b.lo[2] > FloorY

-----------------------------------------------------------------------------
(* C2: one node per fixture *)

\* C2: after any number of init() runs the scene holds exactly one top-level node
\* for each of the six fixtures.
C2_OneNodePerFixture == Built => \A f \in Fixtures : Cardinality(Slots(f)) = 1

C2_Witness == inits >= 2 /\ \A f \in Fixtures : Cardinality(Slots(f)) = 1

-----------------------------------------------------------------------------
(* C3: idempotence of init() *)

\* C3: an init() run after the first leaves the scene's top-level nodes (with their
\* positions, rotations and scales) as they were after the previous run, and every
\* init() run puts the camera at (0, 0, 260) and the four rotation variables at 0.
C3_InitIdempotent ==
    [][inits' = inits + 1 =>
          /\ (inits >= 1 => scene' = scene)
          /\ camera' = Polar(CameraDistance * 10, 0, 0)
          /\ targetRotationX' = 0 /\ targetRotationY' = 0
          /\ currentRotationX' = 0 /\ currentRotationY' = 0]_vars

C3_Witness ==
    /\ inits >= 2
    /\ Len(scene) = 22
    /\ camera = Polar(CameraDistance * 10, 0, 0)
    /\ mouseX # 0

-----------------------------------------------------------------------------
(* C6: scale vectors *)

\* every node of the fixtures registered in the scene
FixtureNodes == UNION {NodesOf(scene[i]) : i \in UNION {Slots(f) : f \in Fixtures}}

-----------------------------------------------------------------------------
(* C9: anchor offsets of the yawed fixtures *)

\* fixtures whose rotation.y is set
Yawed == {"ring", "toiletGroup", "cabinetGroup"}

\* the wall a yawed fixture is placed against: the axis, the wall's coordinate and
\* the direction from the wall into the room (position = wall + inward * offset)
Anchor(f) ==
    CASE f = "ring" -> [axis |-> 1, wall |-> -In(WIDTH) \div 2, inward |-> 1]
      [] f = "toiletGroup" -> [axis |-> 3, wall |-> In(LENGTH) \div 2, inward |-> -1]
      [] f = "cabinetGroup" -> [axis |-> 3, wall |-> In(LENGTH) \div 2, inward |-> -1]

\* distance from the anchor wall to the node's origin
AnchorOffset(n) == (n.position[Anchor(n.id).axis] - Anchor(n.id).wall) * Anchor(n.id).inward

\* how far box b reaches from the node's origin toward the anchor wall
ExtentTowardWall(b, n) ==
    LET a == Anchor(n.id)
    IN IF a.inward = 1 THEN n.position[a.axis] - b.lo[a.axis] ELSE b.hi[a.axis] - n.position[a.axis]

YawedNodes == {scene[i] : i \in UNION {Slots(f) : f \in Yawed}}

LiteralOffset(f) ==
    CASE f = "ring" -> In(2) [] f = "toiletGroup" -> H(1450) [] f = "cabinetGroup" -> In(5)

PostRotationClearance(f) ==
    CASE f = "ring" -> H(170) [] f = "toiletGroup" -> H(135) [] f = "cabinetGroup" -> 0

-----------------------------------------------------------------------------
(* C10: footprint of the vanity *)

\* C10 as stated: the bounding volume of the vanity group spans exactly 24 on x,
\* 34 on y and 22.5 on z.
C10_VanityGroupFootprint ==
    Built => \A b \in FixtureBoxes("vanityGroup") :
                Size(b, 1) = In(24) /\ Size(b, 2) = In(34) /\ Size(b, 3) = H(2250)

\* a vanity group reduced to its two side panels
FrameOnly(n) == [n EXCEPT !.children = SelectSeq(@, LAMBDA c : c.id \in {"leftPanel", "rightPanel"})]

vanityFrameBox == setFromObject(FrameOnly(vanityGroup))

\* bounding volume of the side panels of the vanity behind reference r
FrameBox(r) ==
    IF r = Ref(vanityGroup) THEN vanityFrameBox ELSE setFromObject(FrameOnly(Resolve(r)))

\* C10 amended: the vanity's frame (its two side panels) spans exactly 24 on x, 34 on
\* y, from the floor, and 22.5 on z; the bounding volume of the whole vanity group
\* is larger: 25 on x and 23.8 on z (countertop and drawer knobs) and more than 34
\* on y (countertop, sink and faucet stand above the frame).
C10_VanityFrameFootprint ==
    Built => \A i \in Slots("vanityGroup") :
        LET frame == FrameBox(scene[i])
            whole == BoundingBox(scene[i])
        IN /\ Size(frame, 1) = In(24) /\ Size(frame, 2) = In(34) /\ Size(frame, 3) = H(2250)
           /\ frame.lo[2] = FloorY
           /\ Size(whole, 1) = In(25) /\ Size(whole, 3) = H(2380) /\ Size(whole, 2) > In(34)

C10_Witness ==
    /\ Built
    /\ \E i \in Slots("vanityGroup") :
          /\ Size(FrameBox(scene[i]), 1) = In(24)
          /\ Size(BoundingBox(scene[i]), 1) = In(25)

-----------------------------------------------------------------------------
(* loadPBRTextures() and loadEnvironmentHDR().  The program defines them and *)
(* never calls them; AssetSpec adds their calls and the loaders' callbacks.  *)

progVars == <<scene, camera, mouseVars, targetRotationX, targetRotationY,
              currentRotationX, currentRotationY, pc, inits, frames>>

\* Object.entries(maps).forEach: the four loader.load requests, issued in order
loadPBRTextures ==
    /\ requests' = requests \o maps
    /\ loads' = loads \o [i \in DOMAIN maps |-> "pending"]
    /\ texCalls' = texCalls + 1
    /\ UNCHANGED <<progVars, sceneEnvironment, oakMaterial, warnings, hdr>>

CallLoadPBRTextures == pc = "loop" /\ texCalls < MaxTexCalls /\ loadPBRTextures

\* variant: every loaded texture is assigned to the colour map
TextureLoadedSetsMap(i) ==
    /\ loads[i] = "pending"
    /\ loads' = [loads EXCEPT ![i] = "ok"]
    /\ oakMaterial' = [oakMaterial EXCEPT !["map"] = requests[i].path]
    /\ UNCHANGED <<progVars, sceneEnvironment, texCalls, requests, warnings, hdr>>

\* onLoad of request i: oakMaterial[key] = tex
TextureLoaded(i) ==
    /\ loads[i] = "pending"
    /\ loads' = [loads EXCEPT ![i] = "ok"]
    /\ oakMaterial' = [oakMaterial EXCEPT ![requests[i].key] = requests[i].path]
    /\ UNCHANGED <<progVars, sceneEnvironment, texCalls, requests, warnings, hdr>>

\* variant: a failed request is issued again
TextureFailedRetries(i) ==
    /\ loads[i] = "pending"
    /\ requests' = Append(requests, requests[i])
    /\ loads' = Append([loads EXCEPT ![i] = "fail"], "pending")
    /\ warnings' = [warnings EXCEPT ![requests[i].path] = @ + 1]
    /\ UNCHANGED <<progVars, sceneEnvironment, oakMaterial, texCalls, hdr>>

\* variant: a failed request registers a placeholder node in the scene
TextureFailedPlaceholder(i) ==
    /\ loads[i] = "pending"
    /\ loads' = [loads EXCEPT ![i] = "fail"]
    /\ warnings' = [warnings EXCEPT ![requests[i].path] = @ + 1]
    /\ scene' = add(scene, Mesh("placeholder", BoxGeometry(In(1), In(1), In(1)), <<0, 0, 0>>, NoRotation))
    /\ UNCHANGED <<camera, mouseVars, targetRotationX, targetRotationY, currentRotationX,
                   currentRotationY, pc, inits, frames, sceneEnvironment, oakMaterial,
                   texCalls, requests, hdr>>

\* onError of request i: console.warn, the fallback colour is kept
TextureFailed(i) ==
    /\ loads[i] = "pending"
    /\ loads' = [loads EXCEPT ![i] = "fail"]
    /\ warnings' = [warnings EXCEPT ![requests[i].path] = @ + 1]
    /\ UNCHANGED <<progVars, sceneEnvironment, oakMaterial, texCalls, requests, hdr>>

\* defined: whether THREE.RGBELoader exists on the page at the time of the call
loadEnvironmentHDR(defined) ==
    /\ IF ~defined
       THEN /\ warnings' = [warnings EXCEPT !["RGBELoader not found"] = @ + 1]
            /\ hdr' = Append(hdr, "undefined")
       ELSE /\ hdr' = Append(hdr, "pending")
            /\ UNCHANGED warnings
    /\ UNCHANGED <<progVars, sceneEnvironment, oakMaterial, texCalls, requests, loads>>

CallLoadEnvironmentHDR ==
    pc = "loop" /\ Len(hdr) < MaxHdrCalls /\ \E defined \in BOOLEAN : loadEnvironmentHDR(defined)

\* onLoad of studio.hdr: scene.environment = hdr
HdrLoaded(i) ==
    /\ hdr[i] = "pending"
    /\ hdr' = [hdr EXCEPT ![i] = "ok"]
    /\ sceneEnvironment' = "studio.hdr"
    /\ UNCHANGED <<progVars, oakMaterial, texCalls, requests, loads, warnings>>

\* onError of studio.hdr: console.warn, the default environment is kept
HdrFailed(i) ==
    /\ hdr[i] = "pending"
    /\ hdr' = [hdr EXCEPT ![i] = "fail"]
    /\ warnings' = [warnings EXCEPT !["HDRI not found"] = @ + 1]
    /\ UNCHANGED <<progVars, sceneEnvironment, oakMaterial, texCalls, requests, loads>>

TextureLoad == \E i \in DOMAIN loads : TextureLoaded(i)
TextureError == \E i \in DOMAIN loads : TextureFailed(i)
HdrLoad == \E i \in DOMAIN hdr : HdrLoaded(i)
HdrError == \E i \in DOMAIN hdr : HdrFailed(i)

AssetNext ==
    \/ ScriptInit
    \/ ScriptAnimate
    \/ CallInit
    \/ CallLoadPBRTextures
    \/ TextureLoad
    \/ TextureError
    \/ CallLoadEnvironmentHDR
    \/ HdrLoad
    \/ HdrError

AssetSpec == Init /\ [][AssetNext]_vars

-----------------------------------------------------------------------------
(* C4: order of the texture requests *)

Failed(i) == loads[i] = "fail"

\* C4 as stated: the candidates are tried one at a time in list order and the
\* search stops at the first success, so a candidate is attempted only after
\* every candidate before it has failed.
C4_SequentialShortCircuit ==
    \A i \in DOMAIN requests : \A j \in 1..(i - 1) : Failed(j)

\* C4 amended: each loadPBRTextures() call requests each of the four texture paths
\* exactly once, in list order and all at once: a failed path is never requested
\* again, and the requests do not stop at the first success - every path is
\* attempted whatever the outcome of the others, and every texture that loads is
\* used for its own material key.
C4_EveryPathRequestedOnce ==
    /\ Len(requests) = Len(maps) * texCalls
    /\ Len(loads) = Len(requests)
    /\ \A i \in DOMAIN requests : requests[i] = maps[((i - 1) % Len(maps)) + 1]
    /\ \A i \in DOMAIN requests : loads[i] = "ok" => oakMaterial[requests[i].key] = requests[i].path
    /\ \A k \in TexKeys :
          oakMaterial[k] # "none" => \E i \in DOMAIN requests : requests[i].key = k /\ loads[i] = "ok"

\* the first path failed, the second loaded, and the third and fourth were
\* requested all the same
C4_Witness ==
    /\ Len(requests) >= 4
    /\ loads[1] = "fail" /\ loads[2] = "ok" /\ loads[3] = "ok" /\ loads[4] = "fail"
    /\ oakMaterial["normalMap"] = "assets/oak_normal.jpg"
    /\ oakMaterial["roughnessMap"] = "assets/oak_roughness.jpg"
    /\ oakMaterial["map"] = "none"

-----------------------------------------------------------------------------
(* C5: failed loads *)

TextureWarnings ==
    warnings["assets/oak_basecolor.jpg"] + warnings["assets/oak_normal.jpg"]
    + warnings["assets/oak_roughness.jpg"] + warnings["assets/oak_ao.jpg"]

AllTexturesFailed == texCalls >= 1 /\ \A i \in DOMAIN loads : Failed(i)

\* C5 as stated: when every load fails the fallback runs exactly once, and at most
\* one placeholder node is registered.
C5_FallbackOnce ==
    AllTexturesFailed => TextureWarnings = 1 /\ Len(scene) <= Len(BuildScene(<<>>)) + 1

\* C5 amended: when every texture load of loadPBRTextures() fails, the error
\* callback runs once for each failed request (four times for a call, not once),
\* oakMaterial keeps its fallback colour with no texture map, and no node is
\* registered in the scene: the scene keeps exactly the nodes init() built. When
\* the studio.hdr load fails its error callback runs once and scene.environment
\* keeps the default environment.
C5_FallbackPerFailedLoad ==
    /\ \A w \in WarnKinds \ {"RGBELoader not found", "HDRI not found"} :
          warnings[w] = Cardinality({i \in DOMAIN requests : requests[i].path = w /\ Failed(i)})
    /\ warnings["HDRI not found"] = Cardinality({i \in DOMAIN hdr : hdr[i] = "fail"})
    /\ warnings["RGBELoader not found"] = Cardinality({i \in DOMAIN hdr : hdr[i] = "undefined"})
    /\ AllTexturesFailed =>
          /\ TextureWarnings = Len(maps) * texCalls
          /\ \A k \in TexKeys : oakMaterial[k] = "none"
    /\ Built => scene = BuildScene(<<>>)
    /\ (Built /\ \A i \in DOMAIN hdr : hdr[i] # "ok") => sceneEnvironment = "envTex"

C5_Witness ==
    /\ AllTexturesFailed
    /\ TextureWarnings = 4
    /\ Len(hdr) >= 1 /\ hdr[1] = "fail"
    /\ warnings["HDRI not found"] = 1
    /\ Len(scene) = 22

-----------------------------------------------------------------------------
(* C11: which button drags *)

RightButton == 2

\* C11 as stated: while only the right button is held, the drag does not rotate the
\* camera: no step other than init() changes targetRotationX or targetRotationY
\* (the rotation the camera is damped toward).
C11_RightDragDoesNotRotate ==
    [][(pressed = {RightButton} /\ inits' = inits) =>
          (targetRotationX' = targetRotationX /\ targetRotationY' = targetRotationY)]_vars

-----------------------------------------------------------------------------
(* C17: the drag flag *)

\* C17 as stated: a mousemove while isMouseDown is false leaves the target rotation
\* and the remembered pointer position unchanged, and isMouseDown is true exactly
\* when a button pressed on the canvas has not yet been released, wherever the
\* release happens.
C17_DragOnlyWhileButtonHeld ==
    /\ [][(~isMouseDown /\ isMouseDown' = isMouseDown /\ inits' = inits) =>
             UNCHANGED <<targetRotationX, targetRotationY, mouseX, mouseY>>]_vars
    /\ [](isMouseDown <=> pressed # {})

-----------------------------------------------------------------------------
(* C12: whether the loaders run *)

\* The program under the scheduling the browser guarantees: the script's two
\* statements run, and requestAnimationFrame keeps delivering frames.
LiveSpec == Spec /\ WF_vars(ScriptInit) /\ WF_vars(ScriptAnimate) /\ WF_vars(Frame)

\* C12 as stated: in every run of the program loadPBRTextures() and
\* loadEnvironmentHDR() are eventually invoked, so the four oak texture maps and
\* studio.hdr are eventually requested.
C12_LoadersEventuallyInvoked ==
    <>(texCalls >= 1 /\ Len(requests) >= Len(maps) /\ Len(hdr) >= 1)

-----------------------------------------------------------------------------
(* C13: what a frame renders *)

SceneIds(sc) == {sc[i].id : i \in DOMAIN sc}

\* the ten meshes of the room shell
RoomShell == {roomNodes[i].id : i \in DOMAIN roomNodes}

\* the scene holds the whole room shell and all six fixtures, each once, and
\* nothing besides them and the lights
Complete(sc) ==
    /\ RoomShell \subseteq SceneIds(sc)
    /\ Fixtures \subseteq SceneIds(sc)
    /\ \A f \in Fixtures : Cardinality(Slots(f)) = 1
    /\ Len(sc) = Len(lightNodes) + Len(roomNodes) + Cardinality(Fixtures)

\* C13: init() has completed before any animate() frame, and every frame (every
\* renderer.render call, the last statement of animate()) observes a scene that
\* holds the complete room shell and all six fixtures; animate() does not change it.
C13_RenderSeesCompleteScene ==
    [][frames' = frames + 1 => (inits >= 1 /\ Complete(scene) /\ scene' = scene)]_vars

\* a frame has been rendered after init() was run a second time
C13_Witness == frames >= 2 /\ inits >= 2 /\ Complete(scene) /\ pc = "loop"

-----------------------------------------------------------------------------
(* C14: fixtures and the room box *)

\* the room: x in [-WIDTH/2, WIDTH/2], y in [0, HEIGHT], z in [-LENGTH/2, LENGTH/2]
RoomBox ==
    Box(<<-In(WIDTH) \div 2, FloorY, -In(LENGTH) \div 2>>,
        <<In(WIDTH) \div 2, FloorY + In(HEIGHT), In(LENGTH) \div 2>>)

\* box b lies within box r, touching allowed
Inside(b, r) == \A k \in 1..3 : r.lo[k] <= b.lo[k] /\ b.hi[k] <= r.hi[k]

\* C14 as stated: after init() no part of any fixture's bounding volume is outside
\* the room box; in particular the vanity does not cross the back wall.
C14_FixturesInsideRoom ==
    Built => \A f \in Fixtures : \A b \in FixtureBoxes(f) : Inside(b, RoomBox)

-----------------------------------------------------------------------------
(* C15: independence of the four texture loads *)

\* the path loadPBRTextures() requests for a material key
PathOf(k) == maps[CHOOSE i \in DOMAIN maps : maps[i].key = k].path

\* the keys for which some request has succeeded so far
Succeeded == {requests[i].key : i \in {j \in DOMAIN loads : loads[j] = "ok"}}

\* C15: under every interleaving of the texture callbacks, a failed load leaves
\* oakMaterial unchanged, a successful load sets only its own key, oakMaterial is
\* determined by which loads have succeeded (not by the order in which they
\* completed), and whatever the outcomes the scene holds the complete room and all
\* six fixtures once the script has run init(), also when init() runs again later.
C15_LoadsIndependent ==
    /\ [][\A i \in DOMAIN loads :
             /\ (loads[i] = "pending" /\ loads'[i] = "fail") => oakMaterial' = oakMaterial
             /\ (loads[i] = "pending" /\ loads'[i] = "ok") =>
                   oakMaterial' = [oakMaterial EXCEPT ![requests[i].key] = requests[i].path]]_vars
    /\ [](\A k \in TexKeys : oakMaterial[k] = IF k \in Succeeded THEN PathOf(k) ELSE "none")
    /\ [](pc # "init" => (inits >= 1 /\ Complete(scene)))

\* the fourth load completed before the first, the second failed, and init() has
\* been run again since
C15_Witness ==
    /\ Len(loads) >= 4
    /\ loads[1] = "pending" /\ loads[2] = "fail" /\ loads[4] = "ok"
    /\ oakMaterial["aoMap"] = "assets/oak_ao.jpg"
    /\ oakMaterial["normalMap"] = "none"
    /\ inits >= 2
    /\ Complete(scene)

-----------------------------------------------------------------------------
(* C16: camera distance *)

\* Math.max(10, Math.min(400, d)), in tenths of an inch
Clamp(d) == Max2(MinDistance * 10, Min2(MaxDistance * 10, d))

=============================================================================
